---- MODULE Spec2Model ----
(***************************************************************************)
(* View navigation and asynchronous data synchronisation of the Smart      *)
(* Fleet Command Center front end: the App router, the Dashboard, the      *)
(* CategoryView and the VehicleView, with every network request modelled   *)
(* as a message in flight whose response may arrive at any later time and  *)
(* in any order.                                                           *)
(*                                                                         *)
(* React semantics used by the model:                                      *)
(*  - a component keeps its useState values while the router renders the   *)
(*    same component type at the same place; a prop change re-runs the     *)
(*    effects whose dependency changed;                                    *)
(*  - when the router renders another component type the old instance is   *)
(*    unmounted, the new one starts from its useState initial values, and  *)
(*    a state setter of an unmounted instance does nothing.                *)
(***************************************************************************)
EXTENDS Integers, Sequences, FiniteSets, TLC

\* ------------------------------------------------------------------ bounds
\* total number of navigateTo calls in one behaviour
MaxNav == 2
\* total number of on-demand requests (predictions, analysis, return) the user starts
MaxOnDemand == 2

\* ------------------------------------------------------------ value domains
\* a prop that the caller of navigateTo did not pass
Undefined == "undefined"
Categories == {"Excavator", "Dozer"}
EquipmentIds == {"EX-1", "EX-2"}
\* the names the switch of renderView has a case for
KnownNames == {"dashboard", "category", "vehicle", "sustainability", "bim"}
\* names renderView has no case for
UnknownNames == {"forecast"}
\* the name of the DemandForecast screen kind; renderView has no case for it
DemandForecastName == "demandForecast"
ViewNames == KnownNames \cup UnknownNames \cup {DemandForecastName}
NoProps == [category |-> Undefined, equipmentId |-> Undefined]
\* the props objects passed to navigateTo: none, { category }, { equipmentId, category }
PropsSet ==
  {NoProps} \cup [category : Categories, equipmentId : {Undefined}]
    \cup [category : {"Excavator"}, equipmentId : EquipmentIds]
\* the calls of navigateTo: the call sites of the screens and of the header, and
\* calls with a name renderView has no case for, with any props
NavInputs ==
  [name : {"dashboard", "sustainability", "bim"}, props : {NoProps}]
    \cup [name : {"category"}, props : [category : Categories, equipmentId : {Undefined}]]
    \cup [name : {"vehicle"}, props : [category : {"Excavator"}, equipmentId : EquipmentIds]]
    \cup [name : UnknownNames, props : PropsSet]
    \cup [name : {DemandForecastName}, props : {NoProps}]
Dates == {"2025-01-01", "2025-02-02"}
Statuses == {"In-Use", "Available"}
\* JavaScript null in a useState slot
Null == [tag |-> "null"]
ServerError == "model unavailable"

VARIABLES
  view,             \* App: useState({ name, props })
  navs,             \* number of navigateTo calls so far
  mounted,          \* the component instance React has mounted under <main>
  issued,           \* every request sent so far, in order of sending
  inflight,         \* indices into issued of the requests not yet answered
  summary,          \* Dashboard state
  dashboardError,   \* Dashboard state `error`
  equipment,        \* CategoryView state
  isLoading,        \* CategoryView state
  categoryError,    \* CategoryView state `error`
  activeFilter,     \* CategoryView state
  vehicle,          \* VehicleView state
  vehicleError,     \* VehicleView state `error`
  prediction,       \* VehicleView state
  date,             \* VehicleView state
  pricePrediction,  \* VehicleView state
  duration,         \* VehicleView state
  analysisResult,   \* VehicleView state
  isAnalyzing,      \* VehicleView state
  report,           \* SustainabilityView state
  sustainabilityError, \* SustainabilityView state `error`
  forecastData,     \* DemandForecastView state
  forecastIsLoading, \* DemandForecastView state `isLoading`
  forecastError     \* DemandForecastView state `error`

routerVars == <<view, navs, mounted>>
netVars == <<issued, inflight>>
dashboardVars == <<summary, dashboardError>>
categoryVars == <<equipment, isLoading, categoryError, activeFilter>>
vehicleVars ==
  <<vehicle, vehicleError, prediction, date, pricePrediction, duration, analysisResult,
    isAnalyzing>>
sustainabilityVars == <<report, sustainabilityError>>
forecastVars == <<forecastData, forecastIsLoading, forecastError>>
screenVars == <<dashboardVars, categoryVars, vehicleVars, sustainabilityVars, forecastVars>>
vars == <<routerVars, netVars, screenVars>>

\* ------------------------------------------------------------------ router
\* a router that spreads the previous props under the new ones
SetViewMerging(name, props) ==
  [name |-> name,
   props |-> [category |-> IF props.category = Undefined THEN view.props.category
                           ELSE props.category,
              equipmentId |-> IF props.equipmentId = Undefined THEN view.props.equipmentId
                              ELSE props.equipmentId]]

\* the object literal { name, props } handed to setView
SetView(name, props) == [name |-> name, props |-> props]

\* a switch whose default branch renders nothing
RenderViewNoDefault(v) ==
  CASE v.name = "category" -> "CategoryView"
    [] v.name = "vehicle" -> "VehicleView"
    [] v.name = "sustainability" -> "SustainabilityView"
    [] v.name = "bim" -> "BimView"
    [] v.name = "dashboard" -> "Dashboard"
    [] OTHER -> "None"

\* the component type the switch of renderView returns for a view
RenderView(v) ==
  CASE v.name = "category" -> "CategoryView"
    [] v.name = "vehicle" -> "VehicleView"
    [] v.name = "sustainability" -> "SustainabilityView"
    [] v.name = "bim" -> "BimView"
    [] OTHER -> "Dashboard"

\* setters that would act whether or not their instance is still mounted
DeliveredAlways(r) == TRUE

\* a setter called by the callback of request r reaches a mounted instance
Delivered(r) == r.inst = mounted.inst

\* ----------------------------------------------------------------- network
Request(slot, inst, arg, body) == [slot |-> slot, inst |-> inst, arg |-> arg, body |-> body]

OnDemandSlots == {"return", "availabilityPrediction", "pricePrediction", "behaviorAnalysis"}
\* the number of on-demand requests among reqs
OnDemand(reqs) == Cardinality({i \in DOMAIN reqs : reqs[i].slot \in OnDemandSlots})

\* issued and inflight after sending the requests of the sequence reqs
Send(reqs) ==
  /\ OnDemand(issued \o reqs) <= MaxOnDemand
  /\ issued' = issued \o reqs
  /\ inflight' = inflight \cup ((Len(issued) + 1) .. (Len(issued) + Len(reqs)))

\* request id is answered now and sends the follow-up requests reqs
Settle(id, reqs) ==
  /\ id \in inflight
  /\ issued' = issued \o reqs
  /\ inflight' = (inflight \ {id}) \cup ((Len(issued) + 1) .. (Len(issued) + Len(reqs)))

\* --------------------------------------------------- useState initial values
DashboardInit ==
  /\ summary' = <<>>
  /\ dashboardError' = ""

CategoryInit ==
  /\ equipment' = <<>>
  /\ isLoading' = TRUE
  /\ categoryError' = ""
  /\ activeFilter' = "All"

VehicleInit ==
  /\ vehicle' = Null
  /\ vehicleError' = ""
  /\ prediction' = Null
  /\ date' = ""
  /\ pricePrediction' = Null
  /\ duration' = 90
  /\ analysisResult' = Null
  /\ isAnalyzing' = FALSE

SustainabilityInit ==
  /\ report' = Null
  /\ sustainabilityError' = ""

ForecastInit ==
  /\ forecastData' = Null
  /\ forecastIsLoading' = FALSE
  /\ forecastError' = ""

\* a Vehicle screen that also asks for a price as soon as it is mounted
MountRequestsEager(comp, inst, p) ==
  CASE comp = "Dashboard" -> <<Request("summary", inst, Undefined, Null)>>
    [] comp = "CategoryView" -> <<Request("list", inst, p.category, Null)>>
    [] comp = "VehicleView" -> <<Request("detail", inst, p.equipmentId, Null),
                                 Request("pricePrediction", inst, p.equipmentId, Null)>>
    [] comp = "SustainabilityView" -> <<Request("report", inst, Undefined, Null)>>
    [] OTHER -> <<>>

\* the requests the mount effects of component comp send for props p
MountRequests(comp, inst, p) ==
  CASE comp = "Dashboard" -> <<Request("summary", inst, Undefined, Null)>>
    [] comp = "CategoryView" -> <<Request("list", inst, p.category, Null)>>
    [] comp = "VehicleView" -> <<Request("detail", inst, p.equipmentId, Null)>>
    [] comp = "SustainabilityView" -> <<Request("report", inst, Undefined, Null)>>
    [] OTHER -> <<>>

Init ==
  /\ view = [name |-> "dashboard", props |-> NoProps]
  /\ navs = 0
  /\ mounted = [comp |-> "Dashboard", inst |-> 1]
  /\ issued = MountRequests("Dashboard", 1, NoProps)
  /\ inflight = {1}
  /\ summary = <<>>
  /\ dashboardError = ""
  /\ equipment = <<>>
  /\ isLoading = TRUE
  /\ categoryError = ""
  /\ activeFilter = "All"
  /\ vehicle = Null
  /\ vehicleError = ""
  /\ prediction = Null
  /\ date = ""
  /\ pricePrediction = Null
  /\ duration = 90
  /\ analysisResult = Null
  /\ isAnalyzing = FALSE
  /\ report = Null
  /\ sustainabilityError = ""
  /\ forecastData = Null
  /\ forecastIsLoading = FALSE
  /\ forecastError = ""

\* navigateTo(name, props) followed by the render and the effects it causes
NavigateTo(name, props) ==
  LET v == SetView(name, props)
      comp == RenderView(v)
  IN /\ navs < MaxNav
     /\ navs' = navs + 1
     /\ view' = v
     /\ IF comp # mounted.comp
          THEN \* the old instance is unmounted, a new one is mounted
               /\ mounted' = [comp |-> comp, inst |-> mounted.inst + 1]
               /\ DashboardInit
               /\ CategoryInit
               /\ VehicleInit
               /\ SustainabilityInit
               /\ ForecastInit
               /\ Send(MountRequests(comp, mounted.inst + 1, v.props))
          ELSE \* same instance; effects re-run when their dependency changed
               /\ UNCHANGED mounted
               /\ UNCHANGED <<dashboardVars, sustainabilityVars, forecastVars>>
               /\ IF comp = "CategoryView" /\ v.props.category # view.props.category
                    THEN /\ isLoading' = TRUE
                         /\ equipment' = <<>>
                         /\ categoryError' = ""
                         /\ UNCHANGED <<activeFilter, vehicleVars>>
                         /\ Send(<<Request("list", mounted.inst, v.props.category, Null)>>)
                    ELSE IF comp = "VehicleView" /\ v.props.equipmentId # view.props.equipmentId
                    THEN /\ UNCHANGED <<categoryVars, vehicleVars>>
                         /\ Send(<<Request("detail", mounted.inst, v.props.equipmentId, Null)>>)
                    ELSE UNCHANGED <<categoryVars, vehicleVars, netVars>>

\* ------------------------------------------------------- server responses
JsArray(items) == [tag |-> "array", items |-> items]
JsObject == [tag |-> "object"]
IsArray(x) == x.tag = "array"
\* a 2xx response with body data / a rejected request whose response body is data
Ok(data) == [ok |-> TRUE, data |-> data]
Fail(data) == [ok |-> FALSE, data |-> data]
Failures == {Fail(Null), Fail([error |-> ""]), Fail([error |-> ServerError])}
\* a handler that ignores the body of the failed response
ErrorOrFallback(res, fallback) == fallback

\* err.response?.data?.error || fallback
ErrorOr(res, fallback) ==
  IF res.data # Null /\ res.data.error # "" THEN res.data.error ELSE fallback

SummaryCard(category, total, inUse) ==
  [category |-> category,
   statuses |-> [Total |-> total, Available |-> total - inUse, InUse |-> inUse, Maintenance |-> 0]]
\* a summary entry of a category with no unit in use or in maintenance: the
\* service leaves those counts out
SummaryCardPartial(category, total) ==
  [category |-> category, statuses |-> [Total |-> total, Available |-> total]]
SummaryResponses ==
  {Ok([data |-> JsArray(<<>>)]), Ok([data |-> JsArray(<<SummaryCard("Excavator", 5, 2)>>)]),
   Ok([data |-> JsArray(<<SummaryCard("Excavator", 5, 2), SummaryCardPartial("Dozer", 3)>>)]),
   Ok([data |-> JsObject])} \cup Failures

\* the fleet the service holds: the type of each piece of equipment
TypeOf(id) == IF id = "EX-2" THEN "Dozer" ELSE "Excavator"

EquipmentRecord(id, type, status) == [EquipmentID |-> id, Type |-> type, Status |-> status]
ListsFor(category) ==
  {<<>>,
   <<EquipmentRecord("EX-1", category, "In-Use"), EquipmentRecord("EX-2", category, "Available")>>}
\* GET /equipment/type/{category} answers with records of that category
ListResponses(r) ==
  {Ok([data |-> JsArray(rows)]) : rows \in ListsFor(r.arg)} \cup {Ok([data |-> JsObject])}
    \cup Failures

\* GET /equipment/id/{equipmentId} answers with the record of that equipment;
\* rid is the index in issued of the request the record answers
\* the engine hours the service holds for each piece of equipment
EngineHoursOf(id) == IF id = "EX-2" THEN 800 ELSE 1200

VehicleRecord(id, status, rid) ==
  [tag |-> "vehicle", EquipmentID |-> id, Type |-> TypeOf(id), Status |-> status,
   EngineHours |-> EngineHoursOf(id), rid |-> rid]
DetailResponses(id) ==
  {Ok(VehicleRecord(issued[id].arg, status, id)) : status \in Statuses} \cup Failures

\* ---------------------------------------------------------------- Dashboard
\* a Dashboard whose catch only logs the failure
SummaryResponseSilent(id, res) ==
  /\ id \in inflight
  /\ issued[id].slot = "summary"
  /\ Settle(id, <<>>)
  /\ IF Delivered(issued[id]) /\ res.ok
       THEN IF res.data # Null /\ IsArray(res.data.data)
              THEN summary' = res.data.data.items /\ UNCHANGED dashboardError
              ELSE dashboardError' = "Received invalid data format from server."
                   /\ UNCHANGED summary
       ELSE UNCHANGED dashboardVars
  /\ UNCHANGED <<routerVars, forecastVars, categoryVars, vehicleVars, sustainabilityVars>>

SummaryResponse(id, res) ==
  /\ id \in inflight
  /\ issued[id].slot = "summary"
  /\ Settle(id, <<>>)
  /\ IF ~Delivered(issued[id])
       THEN UNCHANGED dashboardVars
       ELSE IF res.ok
       THEN IF res.data # Null /\ IsArray(res.data.data)
              THEN summary' = res.data.data.items /\ UNCHANGED dashboardError
              ELSE dashboardError' = "Received invalid data format from server."
                   /\ UNCHANGED summary
       ELSE dashboardError' = "Could not connect to the backend server."
            /\ UNCHANGED summary
  /\ UNCHANGED <<routerVars, forecastVars, categoryVars, vehicleVars, sustainabilityVars>>

\* ------------------------------------------------------------- CategoryView
ListResponse(id, res) ==
  /\ id \in inflight
  /\ issued[id].slot = "list"
  /\ Settle(id, <<>>)
  /\ IF ~Delivered(issued[id])
       THEN UNCHANGED categoryVars
       ELSE /\ IF res.ok
                 THEN IF res.data # Null /\ IsArray(res.data.data)
                        THEN equipment' = res.data.data.items /\ UNCHANGED categoryError
                        ELSE categoryError' = "Received invalid data format from the server."
                             /\ UNCHANGED equipment
                 ELSE categoryError' = "Could not load equipment details."
                      /\ UNCHANGED equipment
            /\ isLoading' = FALSE
            /\ UNCHANGED activeFilter
  /\ UNCHANGED <<routerVars, forecastVars, dashboardVars, vehicleVars, sustainabilityVars>>

\* the table with the filter buttons is rendered
CategoryRendered == mounted.comp = "CategoryView" /\ ~isLoading /\ categoryError = ""

Filters == {"All", "Available", "In-Use", "Maintenance"}

\* a filter button that stores the filtered list over the fetched one
SetActiveFilterDestructive(f) ==
  /\ CategoryRendered
  /\ activeFilter' = f
  /\ equipment' = SelectSeq(equipment, LAMBDA item : f = "All" \/ item.Status = f)
  /\ UNCHANGED <<routerVars, forecastVars, netVars, dashboardVars, isLoading, categoryError,
                 vehicleVars, sustainabilityVars>>

SetActiveFilter(f) ==
  /\ CategoryRendered
  /\ activeFilter' = f
  /\ UNCHANGED <<routerVars, forecastVars,
                 netVars, dashboardVars, equipment, isLoading, categoryError,
                 vehicleVars, sustainabilityVars>>

\* -------------------------------------------------------------- VehicleView
\* a fetchVehicleData whose success clears the screen error
DetailResponseRecovering(id, res) ==
  /\ id \in inflight
  /\ issued[id].slot = "detail"
  /\ Settle(id, <<>>)
  /\ IF ~Delivered(issued[id])
       THEN UNCHANGED vehicleVars
       ELSE /\ IF res.ok
                 THEN vehicle' = res.data /\ vehicleError' = ""
                 ELSE vehicleError' = "Could not load vehicle details." /\ UNCHANGED vehicle
            /\ UNCHANGED <<prediction, date, pricePrediction, duration, analysisResult,
                           isAnalyzing>>
  /\ UNCHANGED <<routerVars, forecastVars, dashboardVars, categoryVars, sustainabilityVars>>

DetailResponse(id, res) ==
  /\ id \in inflight
  /\ issued[id].slot = "detail"
  /\ Settle(id, <<>>)
  /\ IF ~Delivered(issued[id])
       THEN UNCHANGED vehicleVars
       ELSE /\ IF res.ok
                 THEN vehicle' = res.data /\ UNCHANGED vehicleError
                 ELSE vehicleError' = "Could not load vehicle details." /\ UNCHANGED vehicle
            /\ UNCHANGED <<prediction, date, pricePrediction, duration, analysisResult,
                           isAnalyzing>>
  /\ UNCHANGED <<routerVars, forecastVars, dashboardVars, categoryVars, sustainabilityVars>>

\* the vehicle page with its buttons is rendered
VehicleRendered == mounted.comp = "VehicleView" /\ vehicleError = "" /\ vehicle # Null

\* a return button shown whatever the status of the record
HandleReturnVehicleAnyStatus ==
  /\ VehicleRendered
  /\ Send(<<Request("return", mounted.inst, view.props.equipmentId, Null)>>)
  /\ UNCHANGED <<routerVars, screenVars>>

HandleReturnVehicle ==
  /\ VehicleRendered
  /\ vehicle.Status = "In-Use"
  /\ Send(<<Request("return", mounted.inst, view.props.equipmentId, Null)>>)
  /\ UNCHANGED <<routerVars, screenVars>>

\* a handler that sends the user back to the dashboard once the return is answered
ReturnResponseNavigating(id, res) ==
  /\ id \in inflight
  /\ issued[id].slot = "return"
  /\ Settle(id, <<>>)
  /\ view' = [name |-> "dashboard", props |-> NoProps]
  /\ UNCHANGED <<navs, mounted, screenVars>>

ReturnResponse(id, res) ==
  /\ id \in inflight
  /\ issued[id].slot = "return"
  /\ IF res.ok
       THEN Settle(id, <<Request("detail", issued[id].inst, issued[id].arg, Null)>>)
       ELSE Settle(id, <<>>)
  /\ UNCHANGED <<routerVars, screenVars>>

\* what the date input can hold: a date, or nothing once the user clears it
DateInputs == Dates \cup {""}

\* <input type="date" onChange>
SetDate(d) ==
  /\ VehicleRendered
  /\ date' = d
  /\ UNCHANGED <<routerVars, forecastVars,
                 netVars, dashboardVars, categoryVars, sustainabilityVars, vehicle,
                 vehicleError, prediction, pricePrediction, duration, analysisResult,
                 isAnalyzing>>

\* <input type="number" onChange>; the user leaves the field alone in Spec
SetDuration(n) ==
  /\ VehicleRendered
  /\ duration' = n
  /\ UNCHANGED <<routerVars, forecastVars,
                 netVars, dashboardVars, categoryVars, sustainabilityVars, vehicle,
                 vehicleError, prediction, date, pricePrediction, analysisResult, isAnalyzing>>

\* what setPrediction / setPricePrediction / setAnalysisResult store; rid is the
\* index in issued of the request whose response produced the value
ResultOf(rid, data) == [tag |-> "result", error |-> "", data |-> data, rid |-> rid]
ErrorOf(rid, message) == [tag |-> "result", error |-> message, data |-> Null, rid |-> rid]

\* an availability handler without the test of the date
HandleAvailabilityPredictionUnguarded ==
  /\ VehicleRendered
  /\ prediction' = Null
  /\ Send(<<Request("availabilityPrediction", mounted.inst, view.props.equipmentId,
                    [futureDate |-> date])>>)
  /\ UNCHANGED <<routerVars, forecastVars, dashboardVars, categoryVars, sustainabilityVars, vehicle,
                 vehicleError, date, pricePrediction, duration, analysisResult, isAnalyzing>>

HandleAvailabilityPrediction ==
  /\ VehicleRendered
  /\ IF date = ""
       THEN UNCHANGED <<netVars, prediction>>
       ELSE /\ prediction' = Null
            /\ Send(<<Request("availabilityPrediction", mounted.inst, view.props.equipmentId,
                              [futureDate |-> date])>>)
  /\ UNCHANGED <<routerVars, forecastVars, dashboardVars, categoryVars, sustainabilityVars, vehicle,
                 vehicleError, date, pricePrediction, duration, analysisResult, isAnalyzing>>

AvailabilityResponses ==
  {Ok([available |-> a, predictedReturnDate |-> "2025-03-03"]) : a \in BOOLEAN} \cup Failures

AvailabilityResponse(id, res) ==
  /\ id \in inflight
  /\ issued[id].slot = "availabilityPrediction"
  /\ Settle(id, <<>>)
  /\ IF ~Delivered(issued[id])
       THEN UNCHANGED prediction
       ELSE IF res.ok
       THEN prediction' = ResultOf(id, res.data)
       ELSE prediction' = ErrorOf(id, ErrorOr(res, "Could not get prediction."))
  /\ UNCHANGED <<routerVars, forecastVars, dashboardVars, categoryVars, sustainabilityVars, vehicle,
                 vehicleError, date, pricePrediction, duration, analysisResult, isAnalyzing>>

\* a price handler that sends no engine hours of its own record
HandlePricePredictionDefault ==
  /\ VehicleRendered
  /\ pricePrediction' = Null
  /\ Send(<<Request("pricePrediction", mounted.inst, view.props.equipmentId,
                    [engineHours |-> 0, durationDays |-> duration])>>)
  /\ UNCHANGED <<routerVars, forecastVars, dashboardVars, categoryVars, sustainabilityVars, vehicle,
                 vehicleError, prediction, date, duration, analysisResult, isAnalyzing>>

HandlePricePrediction ==
  /\ VehicleRendered
  /\ pricePrediction' = Null
  /\ Send(<<Request("pricePrediction", mounted.inst, view.props.equipmentId,
                    [engineHours |-> vehicle.EngineHours, durationDays |-> duration])>>)
  /\ UNCHANGED <<routerVars, forecastVars, dashboardVars, categoryVars, sustainabilityVars, vehicle,
                 vehicleError, prediction, date, duration, analysisResult, isAnalyzing>>

PriceResponses == {Ok([predictedPrice |-> 4500])} \cup Failures

\* a price handler whose failure is stored as the error of the whole screen
PriceResponseBlanking(id, res) ==
  /\ id \in inflight
  /\ issued[id].slot = "pricePrediction"
  /\ Settle(id, <<>>)
  /\ IF ~Delivered(issued[id])
       THEN UNCHANGED <<pricePrediction, vehicleError>>
       ELSE IF res.ok
       THEN pricePrediction' = ResultOf(id, res.data) /\ UNCHANGED vehicleError
       ELSE vehicleError' = ErrorOr(res, "Could not get price.") /\ UNCHANGED pricePrediction
  /\ UNCHANGED <<routerVars, forecastVars, dashboardVars, categoryVars, sustainabilityVars, vehicle,
                 prediction, date, duration, analysisResult, isAnalyzing>>

PriceResponse(id, res) ==
  /\ id \in inflight
  /\ issued[id].slot = "pricePrediction"
  /\ Settle(id, <<>>)
  /\ IF ~Delivered(issued[id])
       THEN UNCHANGED pricePrediction
       ELSE IF res.ok
       THEN pricePrediction' = ResultOf(id, res.data)
       ELSE pricePrediction' = ErrorOf(id, ErrorOr(res, "Could not get price."))
  /\ UNCHANGED <<routerVars, forecastVars, dashboardVars, categoryVars, sustainabilityVars, vehicle,
                 vehicleError, prediction, date, duration, analysisResult, isAnalyzing>>

\* an analysis handler that never raises the analyzing flag
HandleAnalyzeBehaviorUnflagged ==
  /\ VehicleRendered
  /\ ~isAnalyzing
  /\ analysisResult' = Null
  /\ Send(<<Request("behaviorAnalysis", mounted.inst, view.props.equipmentId, Null)>>)
  /\ UNCHANGED <<routerVars, forecastVars, dashboardVars, categoryVars, sustainabilityVars, vehicle,
                 vehicleError, prediction, date, pricePrediction, duration, isAnalyzing>>

\* the button is disabled while isAnalyzing
HandleAnalyzeBehavior ==
  /\ VehicleRendered
  /\ ~isAnalyzing
  /\ isAnalyzing' = TRUE
  /\ analysisResult' = Null
  /\ Send(<<Request("behaviorAnalysis", mounted.inst, view.props.equipmentId, Null)>>)
  /\ UNCHANGED <<routerVars, forecastVars, dashboardVars, categoryVars, sustainabilityVars, vehicle,
                 vehicleError, prediction, date, pricePrediction, duration>>

\* fetch resolves with response.ok true or false, or rejects (network failure)
AnalysisResponses ==
  {Ok([is_anomaly |-> a]) : a \in BOOLEAN}
    \cup {Fail([error |-> ServerError]), Fail([error |-> ""]), Fail(Null)}

\* an analysis handler without its finally block
AnalysisResponseStuck(id, res) ==
  /\ id \in inflight
  /\ issued[id].slot = "behaviorAnalysis"
  /\ Settle(id, <<>>)
  /\ IF ~Delivered(issued[id])
       THEN UNCHANGED analysisResult
       ELSE IF res.ok
       THEN analysisResult' = ResultOf(id, res.data)
       ELSE analysisResult' = ErrorOf(id, "Failed to analyze behavior.")
  /\ UNCHANGED <<routerVars, forecastVars, dashboardVars, categoryVars, sustainabilityVars,
                 vehicle, vehicleError, prediction, date, pricePrediction, duration,
                 isAnalyzing>>

AnalysisResponse(id, res) ==
  /\ id \in inflight
  /\ issued[id].slot = "behaviorAnalysis"
  /\ Settle(id, <<>>)
  /\ IF ~Delivered(issued[id])
       THEN UNCHANGED <<analysisResult, isAnalyzing>>
       ELSE /\ IF res.ok
                 THEN analysisResult' = ResultOf(id, res.data)
                 ELSE IF res.data = Null
                 THEN analysisResult' = ErrorOf(id, "Failed to fetch")
                 ELSE IF res.data.error # ""
                 THEN analysisResult' = ErrorOf(id, res.data.error)
                 ELSE analysisResult' = ErrorOf(id, "Failed to analyze behavior.")
            /\ isAnalyzing' = FALSE
  /\ UNCHANGED <<routerVars, forecastVars, dashboardVars, categoryVars, sustainabilityVars, vehicle,
                 vehicleError, prediction, date, pricePrediction, duration>>

\* ------------------------------------------------------- SustainabilityView
ReportResponses == {Ok([data |-> JsObject]), Ok([data |-> Null])} \cup Failures

ReportResponse(id, res) ==
  /\ id \in inflight
  /\ issued[id].slot = "report"
  /\ Settle(id, <<>>)
  /\ IF ~Delivered(issued[id])
       THEN UNCHANGED sustainabilityVars
       ELSE IF res.ok
       THEN IF res.data # Null /\ res.data.data # Null
              THEN report' = res.data.data /\ UNCHANGED sustainabilityError
              ELSE sustainabilityError' = "Received invalid data format from server."
                   /\ UNCHANGED report
       ELSE sustainabilityError' = "Could not connect to the backend server."
            /\ UNCHANGED report
  /\ UNCHANGED <<routerVars, forecastVars, dashboardVars, categoryVars, vehicleVars>>

Next ==
  \/ \E nav \in NavInputs : NavigateTo(nav.name, nav.props)
  \/ \E id \in inflight, res \in SummaryResponses : SummaryResponse(id, res)
  \/ \E id \in inflight : \E res \in ListResponses(issued[id]) : ListResponse(id, res)
  \/ \E f \in Filters : SetActiveFilter(f)
  \/ \E id \in inflight : \E res \in DetailResponses(id) : DetailResponse(id, res)
  \/ HandleReturnVehicle
  \/ \E id \in inflight, res \in {Ok(Null)} \cup Failures : ReturnResponse(id, res)
  \/ \E d \in DateInputs : SetDate(d)
  \/ HandleAvailabilityPrediction
  \/ \E id \in inflight, res \in AvailabilityResponses : AvailabilityResponse(id, res)
  \/ HandlePricePrediction
  \/ \E id \in inflight, res \in PriceResponses : PriceResponse(id, res)
  \/ HandleAnalyzeBehavior
  \/ \E id \in inflight, res \in AnalysisResponses : AnalysisResponse(id, res)
  \/ \E id \in inflight, res \in ReportResponses : ReportResponse(id, res)

Spec == Init /\ [][Next]_vars

\* ------------------------------------------------------------------ claims
\* the response of request id arrives in this step
Arrived(id) == id \in inflight /\ id \notin inflight'
\* the component whose code sends the requests of a slot
SlotOwner(slot) ==
  CASE slot = "summary" -> "Dashboard"
    [] slot = "list" -> "CategoryView"
    [] slot = "report" -> "SustainabilityView"
    [] slot = "forecast" -> "DemandForecastView"
    [] OTHER -> "VehicleView"
Max(S) == CHOOSE x \in S : \A y \in S : y <= x
\* the requests of a slot the mounted instance sent for argument arg
SentFor(slot, arg) ==
  {i \in DOMAIN issued :
     issued[i].slot = slot /\ issued[i].inst = mounted.inst /\ issued[i].arg = arg}

\* C1: while a category is active on the Category screen, the equipment list
\* shown holds only records answered for that category: the response of a
\* superseded category never populates it.
C1_StaleListNeverPopulates ==
  mounted.comp = "CategoryView" =>
    \A i \in DOMAIN equipment : equipment[i].Type = view.props.category

\* C2: on the Vehicle screen the response of a detail request sent for another
\* equipmentId than the current one changes neither the displayed vehicle
\* record nor the screen error.
C2_StaleDetailDiscarded ==
  [][\A id \in inflight :
       (/\ Arrived(id)
        /\ issued[id].slot = "detail"
        /\ mounted.comp = "VehicleView"
        /\ issued[id].arg # view.props.equipmentId)
       => (vehicle' = vehicle /\ vehicleError' = vehicleError)]_vars

\* C3: the response (failure or malformed payload) of the list request of a
\* superseded category sets no error on the Category screen.
C3_StaleListFailureSilent ==
  [][\A id \in inflight :
       (/\ Arrived(id)
        /\ issued[id].slot = "list"
        /\ mounted.comp = "CategoryView"
        /\ issued[id].arg # view.props.category)
       => categoryError' = categoryError]_vars

\* C4: the response to a request of a screen the router has left for a screen
\* of another kind changes no state of any screen.
C4_LeftScreenResponsesInert ==
  [][\A id \in inflight :
       (Arrived(id) /\ SlotOwner(issued[id].slot) # mounted.comp)
       => screenVars' = screenVars]_vars

\* C4 witness: a Vehicle screen sent return-vehicle, the router then left it
\* (the new screen sent its mount request), the return succeeded afterwards and
\* the detail re-fetch it triggered has been answered too.
C4_Witness ==
  /\ mounted.comp # "VehicleView"
  /\ \E i, j, k \in DOMAIN issued :
       /\ i < j /\ j < k
       /\ issued[i].slot = "return"
       /\ issued[j].inst = mounted.inst
       /\ issued[k].slot = "detail" /\ issued[k].inst = issued[i].inst
       /\ k \notin inflight

\* C5: after markReturned was called twice in quick succession (both
\* return-vehicle requests sent before either was answered) and every
\* response has arrived, the displayed record is the answer of the most
\* recently issued detail re-fetch.
C5_LatestRefetchWins ==
  LET id == view.props.equipmentId
      returns == SentFor("return", id)
      details == SentFor("detail", id)
  IN (/\ mounted.comp = "VehicleView"
      /\ Cardinality(returns) = 2
      /\ Max(returns) - 1 \in returns
      /\ Cardinality(details) = 3
      /\ \A i \in DOMAIN issued : issued[i].inst = mounted.inst => issued[i].arg = id
      /\ (returns \cup details) \cap inflight = {}
      /\ vehicleError = "" /\ vehicle # Null)
     => vehicle.rid = Max(details)

\* C6: within one generation of the Vehicle screen (one instance, one
\* equipmentId) every named slot has at most one request in flight.
C6_OneInFlightPerSlot ==
  mounted.comp = "VehicleView" =>
    \A slot \in OnDemandSlots \cup {"detail"} :
      Cardinality(SentFor(slot, view.props.equipmentId) \cap inflight) <= 1

\* C7: once every availability (price) request of the current generation has
\* been answered, the card shows the answer of the request started last.
C7_LaterPredictionWins ==
  mounted.comp = "VehicleView" =>
    /\ LET sent == SentFor("availabilityPrediction", view.props.equipmentId)
       IN (sent # {} /\ sent \cap inflight = {} /\ prediction # Null
           /\ \A i \in DOMAIN issued : issued[i].inst = mounted.inst =>
                issued[i].arg = view.props.equipmentId)
          => prediction.rid = Max(sent)
    /\ LET sent == SentFor("pricePrediction", view.props.equipmentId)
       IN (sent # {} /\ sent \cap inflight = {} /\ pricePrediction # Null
           /\ \A i \in DOMAIN issued : issued[i].inst = mounted.inst =>
                issued[i].arg = view.props.equipmentId)
          => pricePrediction.rid = Max(sent)

\* the state of the list lifecycle as the Category screen shows it
CategoryStatus ==
  IF isLoading THEN "pending" ELSE IF categoryError # "" THEN "failure" ELSE "success"

\* C8: while the same Category screen shows the same category, a settled list
\* lifecycle keeps its state: it neither returns to pending nor switches
\* between success and failure.
C8_SettledListStays ==
  [][(/\ mounted.comp = "CategoryView"
      /\ mounted' = mounted
      /\ view'.props.category = view.props.category
      /\ CategoryStatus # "pending")
     => CategoryStatus' = CategoryStatus]_vars

\* C9: navigateTo(name, props) makes the active view exactly { name, props },
\* whatever the previous view was, and the one mounted screen is the one the
\* router renders for it.
C9_NavigateReplacesView ==
  [][\A nav \in NavInputs :
       NavigateTo(nav.name, nav.props)
       => /\ view' = [name |-> nav.name, props |-> nav.props]
          /\ mounted'.comp = RenderView(view')]_vars

\* C9 witness: the router went from a Category screen to the dashboard with no
\* props: no category is left in the view.
C9_Witness ==
  /\ navs = 2
  /\ view = [name |-> "dashboard", props |-> NoProps]
  /\ \E i \in DOMAIN issued : issued[i].slot = "list" /\ issued[i].arg # Undefined

\* C10: a view name the router has no case for renders the Dashboard, for any
\* props, and navigateTo with such a name is always possible.
C10_UnknownNameRendersDashboard ==
  /\ view.name \notin KnownNames => mounted.comp = "Dashboard"
  /\ navs < MaxNav =>
       \A name \in UnknownNames, props \in PropsSet : ENABLED NavigateTo(name, props)

\* C10 witness: an unknown name with props was navigated to from another
\* screen and the Dashboard was mounted for it.
C10_Witness ==
  /\ view.name \in UnknownNames
  /\ view.props # NoProps
  /\ mounted.comp = "Dashboard"
  /\ mounted.inst > 2

\* ---------------------------------------------- what each screen renders
\* a Dashboard whose loading guard comes before its error guard
DashboardShowsLoadingFirst ==
  IF Len(summary) = 0 THEN "loading" ELSE IF dashboardError # "" THEN "error" ELSE "cards"

\* Dashboard: error guard, then the loading guard on summary.length, then cards
DashboardShows ==
  IF dashboardError # "" THEN "error" ELSE IF Len(summary) = 0 THEN "loading" ELSE "cards"

\* CategoryView: loading guard on isLoading, then the error guard, then the table
CategoryShows ==
  IF isLoading THEN "loading" ELSE IF categoryError # "" THEN "error" ELSE "table"

\* VehicleView: error guard, then the loading guard on vehicle, then the page
VehicleShows ==
  IF vehicleError # "" THEN "error" ELSE IF vehicle = Null THEN "loading" ELSE "page"

\* SustainabilityView: error guard, then the loading guard on report
SustainabilityShows ==
  IF sustainabilityError # "" THEN "error" ELSE IF report = Null THEN "loading" ELSE "report"

\* what the mounted screen renders
Shows ==
  CASE mounted.comp = "Dashboard" -> DashboardShows
    [] mounted.comp = "CategoryView" -> CategoryShows
    [] mounted.comp = "VehicleView" -> VehicleShows
    [] mounted.comp = "SustainabilityView" -> SustainabilityShows
    [] OTHER -> "static"

\* C11: a step in which the response of any request arrives (success, failure
\* or stale) leaves the active view, its props and the mounted screen as they
\* are; the view changes only in a navigateTo step.
C11_ResponsesNeverNavigate ==
  [][/\ (\E id \in inflight : Arrived(id)) => (view' = view /\ mounted' = mounted)
     /\ view' # view => \E nav \in NavInputs : NavigateTo(nav.name, nav.props)]_vars

\* C11 witness: a Vehicle screen on which a detail success, a failed prediction
\* and a price result have all arrived is still the active screen.
C11_Witness ==
  /\ view.name = "vehicle" /\ mounted.comp = "VehicleView"
  /\ vehicle # Null
  /\ prediction # Null /\ prediction.error # ""
  /\ pricePrediction # Null /\ pricePrediction.error = ""

\* a 2xx response whose data field is not a sequence
Malformed == Ok([data |-> JsObject])

\* C12: a successful summary or list response whose data field is not a
\* sequence puts the screen in the error state with the invalid-data-format
\* message, the state a transport failure puts it in, and no card or table
\* is rendered.
C12_MalformedIsError ==
  [][\A id \in inflight :
       Delivered(issued[id]) =>
         /\ SummaryResponse(id, Malformed) =>
              /\ dashboardError' = "Received invalid data format from server."
              /\ DashboardShows' = "error"
         /\ \A f \in Failures :
              (SummaryResponse(id, f) \/ ListResponse(id, f)) => Shows' = "error"
         /\ ListResponse(id, Malformed) =>
              /\ categoryError' = "Received invalid data format from the server."
              /\ CategoryShows' = "error"]_vars

\* C12 witness: the Dashboard shows the invalid-data-format error.
C12_Witness ==
  /\ mounted.comp = "Dashboard"
  /\ dashboardError = "Received invalid data format from server."
  /\ DashboardShows = "error"

\* C13: a failed availability request whose response carries an error string
\* stores exactly that string in the prediction card; the fallback message is
\* stored only when the response carries none.
C13_ServerErrorShown ==
  [][\A id \in inflight : \A f \in Failures :
       (Delivered(issued[id]) /\ AvailabilityResponse(id, f)) =>
         prediction'.error =
           IF f.data # Null /\ f.data.error # "" THEN f.data.error
           ELSE "Could not get prediction."]_vars

\* C13 witness: the prediction card holds the string the server sent.
C13_Witness ==
  /\ VehicleRendered
  /\ prediction # Null
  /\ prediction.error = ServerError
\* C14: a failed summary, list or detail request whose response carries an
\* error string makes that string the screen's error message.
C14_LoadErrorPrefersServerString ==
  [][\A id \in inflight :
       Delivered(issued[id]) =>
         LET f == Fail([error |-> ServerError])
         IN /\ SummaryResponse(id, f) => dashboardError' = ServerError
            /\ ListResponse(id, f) => categoryError' = ServerError
            /\ DetailResponse(id, f) => vehicleError' = ServerError]_vars

\* C15: every failed request of the mounted Vehicle screen leaves a display
\* string in the state of its own lifecycle; a failed return-vehicle request
\* changes the state of the screen too.
C15_EveryFailureSurfaced ==
  [][\A id \in inflight :
       Delivered(issued[id]) =>
         /\ \A f \in Failures :
              /\ DetailResponse(id, f) => vehicleError' # ""
              /\ AvailabilityResponse(id, f) => prediction'.error # ""
              /\ PriceResponse(id, f) => pricePrediction'.error # ""
              /\ ReturnResponse(id, f) => vehicleVars' # vehicleVars
         /\ \A f \in AnalysisResponses :
              (~f.ok /\ AnalysisResponse(id, f)) => analysisResult'.error # ""]_vars

\* the requests instance inst has sent in slot
SentBy(inst, slot) ==
  {i \in DOMAIN issued : issued[i].inst = inst /\ issued[i].slot = slot}

\* C16: the step that mounts a Vehicle screen sends exactly one request, the
\* detail request of its equipmentId; an on-demand request is sent only by a
\* step of its own handler; and while the mounted Vehicle screen has sent no
\* request of an on-demand slot, that slot holds no result and no error.
C16_OnDemandIdleUntilAction ==
  [][/\ (mounted' # mounted /\ mounted'.comp = "VehicleView") =>
          issued' = Append(issued, Request("detail", mounted'.inst,
                                           view'.props.equipmentId, Null))
     /\ \A i \in (Len(issued) + 1) .. Len(issued') :
          /\ issued'[i].slot = "availabilityPrediction" => HandleAvailabilityPrediction
          /\ issued'[i].slot = "pricePrediction" => HandlePricePrediction
          /\ issued'[i].slot = "behaviorAnalysis" => HandleAnalyzeBehavior
          /\ issued'[i].slot = "return" => HandleReturnVehicle
     /\ mounted'.comp = "VehicleView" =>
          /\ SentBy(mounted.inst, "availabilityPrediction")' = {} => prediction' = Null
          /\ SentBy(mounted.inst, "pricePrediction")' = {} => pricePrediction' = Null
          /\ SentBy(mounted.inst, "behaviorAnalysis")' = {} =>
               (analysisResult' = Null /\ ~isAnalyzing')]_vars

\* C16 witness: a Vehicle screen whose record has loaded and whose user has
\* pressed nothing: one request sent, every on-demand slot empty.
C16_Witness ==
  /\ VehicleRendered
  /\ Cardinality({i \in DOMAIN issued : issued[i].inst = mounted.inst}) = 1
  /\ prediction = Null /\ pricePrediction = Null /\ analysisResult = Null /\ ~isAnalyzing

\* C17: while the list request of the Category screen's current category is
\* in flight, the screen renders its loading state.
C17_PendingShowsLoading ==
  (mounted.comp = "CategoryView"
     /\ SentFor("list", view.props.category) \cap inflight # {})
  => CategoryShows = "loading"

\* C18: a well-formed success response of the summary or list request, its
\* data sequence empty or not, takes the Dashboard or Category screen out of
\* the loading state.
C18_SuccessLeavesLoading ==
  [][\A id \in inflight :
       Delivered(issued[id]) =>
         /\ \A res \in SummaryResponses :
              (res.ok /\ IsArray(res.data.data) /\ SummaryResponse(id, res))
              => DashboardShows' # "loading"
         /\ \A res \in ListResponses(issued[id]) :
              (res.ok /\ IsArray(res.data.data) /\ ListResponse(id, res)
                 /\ issued[id].arg = view.props.category)
              => CategoryShows' # "loading"]_vars
\* C19: a screen that renders its error state keeps rendering it in every
\* step that leaves the screen instance and its parameters as they are:
\* no response and no user action on the screen ends the error state.
C19_ErrorSticky ==
  [][(Shows = "error" /\ mounted' = mounted /\ view'.props = view.props)
     => Shows' = "error"]_vars

\* C19 witness: a Vehicle screen whose re-fetch failed still renders the
\* error although the answer of its latest detail request has been stored.
C19_Witness ==
  /\ mounted.comp = "VehicleView"
  /\ vehicleError # "" /\ vehicle # Null
  /\ SentBy(mounted.inst, "detail") \cap inflight = {}
  /\ Cardinality(SentBy(mounted.inst, "detail")) > 1
  /\ vehicle.rid = Max(SentBy(mounted.inst, "detail"))

\* C20: a failed summary request puts the Dashboard in its error state, and a
\* Dashboard holding an error renders the error and holds no summary entry to
\* render a card from.
C20_SummaryFailureNoCards ==
  [][/\ \A id \in inflight : \A f \in Failures :
          (Delivered(issued[id]) /\ SummaryResponse(id, f)) => DashboardShows' = "error"
     /\ (mounted'.comp = "Dashboard" /\ dashboardError' # "") =>
          (DashboardShows' = "error" /\ summary' = <<>>)]_vars

\* C20 witness: the Dashboard shows the error of a failed summary request.
C20_Witness ==
  /\ mounted.comp = "Dashboard"
  /\ dashboardError = "Could not connect to the backend server."
  /\ summary = <<>>
\* C21: the failure of an availability, price, analysis or return-vehicle
\* request leaves the vehicle record, the screen error and every other
\* on-demand slot as they are, so the screen renders what it rendered before.
C21_OnDemandFailureScoped ==
  [][\A id \in inflight :
       Delivered(issued[id]) =>
         /\ \A f \in Failures :
              /\ AvailabilityResponse(id, f) =>
                   /\ UNCHANGED <<vehicle, vehicleError, pricePrediction, analysisResult,
                                  isAnalyzing>>
                   /\ VehicleShows' = VehicleShows
              /\ PriceResponse(id, f) =>
                   /\ UNCHANGED <<vehicle, vehicleError, prediction, analysisResult,
                                  isAnalyzing>>
                   /\ VehicleShows' = VehicleShows
              /\ ReturnResponse(id, f) => UNCHANGED vehicleVars
         /\ \A f \in AnalysisResponses :
              (~f.ok /\ AnalysisResponse(id, f)) =>
                /\ UNCHANGED <<vehicle, vehicleError, prediction, pricePrediction>>
                /\ VehicleShows' = VehicleShows]_vars

\* C21 witness: the page is still rendered with its availability result
\* after the price request has failed.
C21_Witness ==
  /\ VehicleShows = "page" /\ mounted.comp = "VehicleView"
  /\ pricePrediction # Null /\ pricePrediction.error # ""
  /\ prediction # Null /\ prediction.error = ""

\* the analysis button: disabled and labelled Analyzing... while isAnalyzing
AnalysisShows == IF isAnalyzing THEN "analyzing" ELSE "idle"

\* C22: while a request of an on-demand slot of the mounted Vehicle screen is
\* in flight the screen is not in its loading state, and while its analysis
\* request is in flight and the record is displayed, the page is rendered
\* from the record and the analysis section shows its own indicator.
C22_AnalysisPendingIsLocal ==
  mounted.comp = "VehicleView" =>
    /\ (\E slot \in OnDemandSlots : SentBy(mounted.inst, slot) \cap inflight # {})
         => VehicleShows # "loading"
    /\ (SentBy(mounted.inst, "behaviorAnalysis") \cap inflight # {} /\ vehicleError = "")
         => (VehicleShows = "page" /\ vehicle # Null /\ AnalysisShows = "analyzing")

\* C22 witness: the record is displayed and an analysis is in flight.
C22_Witness ==
  /\ VehicleShows = "page" /\ mounted.comp = "VehicleView"
  /\ SentBy(mounted.inst, "behaviorAnalysis") \cap inflight # {}
  /\ AnalysisShows = "analyzing"
\* ------------------------------------- the callbacks as functions of state
\* the state of the Vehicle screen the response callbacks write
VehicleState ==
  [vehicle |-> vehicle, vehicleError |-> vehicleError, prediction |-> prediction,
   pricePrediction |-> pricePrediction, analysisResult |-> analysisResult,
   isAnalyzing |-> isAnalyzing]

\* the responses request id may receive
ResponsesOf(id) ==
  CASE issued[id].slot = "detail" -> DetailResponses(id)
    [] issued[id].slot = "availabilityPrediction" -> AvailabilityResponses
    [] issued[id].slot = "pricePrediction" -> PriceResponses
    [] issued[id].slot = "behaviorAnalysis" -> AnalysisResponses
    [] issued[id].slot = "return" -> {Ok(Null)} \cup Failures
    [] OTHER -> {}

\* the step in which response res of request id of the Vehicle screen arrives
VehicleResponse(id, res) ==
  CASE issued[id].slot = "detail" -> DetailResponse(id, res)
    [] issued[id].slot = "availabilityPrediction" -> AvailabilityResponse(id, res)
    [] issued[id].slot = "pricePrediction" -> PriceResponse(id, res)
    [] issued[id].slot = "behaviorAnalysis" -> AnalysisResponse(id, res)
    [] issued[id].slot = "return" -> ReturnResponse(id, res)
    [] OTHER -> FALSE

\* callbacks in which an availability answer also empties the price card
VehicleAfterClearing(st, id, res) ==
  CASE issued[id].slot = "detail" ->
         IF res.ok THEN [st EXCEPT !.vehicle = res.data]
         ELSE [st EXCEPT !.vehicleError = "Could not load vehicle details."]
    [] issued[id].slot = "availabilityPrediction" ->
         [st EXCEPT !.prediction =
                      IF res.ok THEN ResultOf(id, res.data)
                      ELSE ErrorOf(id, ErrorOr(res, "Could not get prediction.")),
                    !.pricePrediction = Null]
    [] issued[id].slot = "pricePrediction" ->
         [st EXCEPT !.pricePrediction =
                      IF res.ok THEN ResultOf(id, res.data)
                      ELSE ErrorOf(id, ErrorOr(res, "Could not get price."))]
    [] issued[id].slot = "behaviorAnalysis" ->
         [st EXCEPT !.analysisResult =
                      IF res.ok THEN ResultOf(id, res.data)
                      ELSE IF res.data = Null THEN ErrorOf(id, "Failed to fetch")
                      ELSE IF res.data.error # "" THEN ErrorOf(id, res.data.error)
                      ELSE ErrorOf(id, "Failed to analyze behavior."),
                    !.isAnalyzing = FALSE]
    [] OTHER -> st

\* the Vehicle screen state after the callback of request id has run on state
\* st with response res (the return-vehicle callbacks write no state)
VehicleAfter(st, id, res) ==
  CASE issued[id].slot = "detail" ->
         IF res.ok THEN [st EXCEPT !.vehicle = res.data]
         ELSE [st EXCEPT !.vehicleError = "Could not load vehicle details."]
    [] issued[id].slot = "availabilityPrediction" ->
         [st EXCEPT !.prediction =
                      IF res.ok THEN ResultOf(id, res.data)
                      ELSE ErrorOf(id, ErrorOr(res, "Could not get prediction."))]
    [] issued[id].slot = "pricePrediction" ->
         [st EXCEPT !.pricePrediction =
                      IF res.ok THEN ResultOf(id, res.data)
                      ELSE ErrorOf(id, ErrorOr(res, "Could not get price."))]
    [] issued[id].slot = "behaviorAnalysis" ->
         [st EXCEPT !.analysisResult =
                      IF res.ok THEN ResultOf(id, res.data)
                      ELSE IF res.data = Null THEN ErrorOf(id, "Failed to fetch")
                      ELSE IF res.data.error # "" THEN ErrorOf(id, res.data.error)
                      ELSE ErrorOf(id, "Failed to analyze behavior."),
                    !.isAnalyzing = FALSE]
    [] OTHER -> st

\* C23: the responses of two requests of different slots of the mounted
\* Vehicle screen commute: whichever arrives first, the record, the error and
\* the per-slot results after both are the same; and every response step of
\* the screen changes its state as VehicleAfter says.
C23_SlotsCommute ==
  [][/\ \A id \in inflight : \A res \in ResponsesOf(id) :
          (Delivered(issued[id]) /\ VehicleResponse(id, res))
          => VehicleState' = VehicleAfter(VehicleState, id, res)
     /\ mounted.comp = "VehicleView" =>
          \A i, j \in inflight :
            (/\ Delivered(issued[i]) /\ Delivered(issued[j])
             /\ issued[i].slot # issued[j].slot)
            => \A ri \in ResponsesOf(i), rj \in ResponsesOf(j) :
                 VehicleAfter(VehicleAfter(VehicleState, i, ri), j, rj)
                   = VehicleAfter(VehicleAfter(VehicleState, j, rj), i, ri)]_vars

\* C23 witness: an availability and a price request were sent one after the
\* other and both have been answered.
C23_Witness ==
  /\ mounted.comp = "VehicleView"
  /\ prediction # Null /\ pricePrediction # Null
  /\ pricePrediction.rid = prediction.rid + 1
  /\ \A i \in inflight : issued[i].inst # mounted.inst
\* C24: with no date chosen the availability handler changes nothing, and
\* every availability request that is sent carries the chosen, non-empty date.
C24_NoDateNoRequest ==
  [][/\ (date = "" /\ HandleAvailabilityPrediction) => UNCHANGED vars
     /\ \A i \in (Len(issued) + 1) .. Len(issued') :
          issued'[i].slot = "availabilityPrediction" =>
            (date # "" /\ issued'[i].body.futureDate = date /\ prediction' = Null)]_vars

\* C24 witness: the page shows an availability result and the user has
\* cleared the date, so pressing Check now takes the early return.
C24_Witness ==
  /\ VehicleRendered
  /\ date = ""
  /\ prediction # Null
  /\ ENABLED HandleAvailabilityPrediction
\* C25: a price request is sent only by the price handler, only while the
\* detail record is displayed without a screen error, and carries the engine
\* hours of that displayed record; the handler cannot run without a record.
C25_PriceNeedsRecord ==
  [][/\ \A i \in (Len(issued) + 1) .. Len(issued') :
          issued'[i].slot = "pricePrediction" =>
            /\ HandlePricePrediction
            /\ vehicle # Null /\ vehicleError = ""
            /\ issued'[i].body.engineHours = vehicle.EngineHours
     /\ (ENABLED HandlePricePrediction) => VehicleShows = "page"]_vars

\* C25 witness: a price request carrying the engine hours of the displayed
\* EX-2 record has been sent.
C25_Witness ==
  /\ VehicleRendered
  /\ vehicle.EquipmentID = "EX-2"
  /\ \E i \in SentBy(mounted.inst, "pricePrediction") :
       issued[i].body.engineHours = EngineHoursOf("EX-2")
\* C26: a successful return-vehicle response of the mounted screen is
\* followed by exactly one new detail request, for the equipmentId the screen
\* shows; a failed one sends nothing and changes nothing; and the displayed
\* record changes only in the step of a detail response.
C26_ReturnRefetches ==
  [][/\ \A id \in inflight :
          Delivered(issued[id]) =>
            /\ ReturnResponse(id, Ok(Null)) =>
                 issued' = Append(issued, Request("detail", mounted.inst,
                                                  view.props.equipmentId, Null))
            /\ \A f \in Failures :
                 ReturnResponse(id, f) => (issued' = issued /\ UNCHANGED vehicleVars)
     /\ (vehicle' # vehicle /\ mounted' = mounted) =>
          \E id \in inflight : \E res \in DetailResponses(id) : DetailResponse(id, res)]_vars

\* C27: a navigation that changes the screen kind or the parameters of the
\* Vehicle screen leaves a Vehicle screen in its initial state: no record, no
\* error, no prediction, no price, no analysis result, loading shown.
C27_NavigationStartsFresh ==
  [][\A nav \in NavInputs :
       (NavigateTo(nav.name, nav.props) /\ view' # view /\ mounted'.comp = "VehicleView")
       => /\ vehicle' = Null /\ vehicleError' = ""
          /\ prediction' = Null /\ pricePrediction' = Null /\ analysisResult' = Null
          /\ VehicleShows' = "loading"]_vars

\* C28: a navigation that enters the Category screen or changes its category
\* leaves the filter at All.
C28_FilterResetsWithCategory ==
  [][\A nav \in NavInputs :
       (/\ NavigateTo(nav.name, nav.props)
        /\ mounted'.comp = "CategoryView"
        /\ (mounted' # mounted \/ view'.props.category # view.props.category))
       => activeFilter' = "All"]_vars
\* ------------------------------------------------------ filter projection
\* the longest equipment list drawn for the filter
MaxRows == 3

\* status tags a record of the service may carry, in several spellings
StatusTags == {"Available", "In-Use", "Maintenance", "in-use", "InUse"}

\* the equipment lists of at most MaxRows records
EquipmentLists ==
  UNION {[1 .. n -> {EquipmentRecord(id, "Excavator", tag) :
                       id \in EquipmentIds, tag \in StatusTags}] : n \in 0 .. MaxRows}

\* the callback of equipment.filter
FilterTest(item, f) ==
  IF f = "All" THEN TRUE
  ELSE IF f = "In-Use" THEN item.Status = "In-Use"
  ELSE item.Status = f

Reverse(seq) == [i \in 1 .. Len(seq) |-> seq[Len(seq) + 1 - i]]

\* a projection that returns the matching records last to first
FilteredEquipmentReversed(rows, f) ==
  Reverse(SelectSeq(rows, LAMBDA item : FilterTest(item, f)))

\* filteredEquipment = equipment.filter(...)
FilteredEquipment(rows, f) ==
  SelectSeq(rows, LAMBDA item : FilterTest(item, f))

\* a table body that is left empty when nothing matches
TableBodyNoPlaceholder(rows, f) ==
  [k \in 1 .. Len(rows) |-> [kind |-> "row", key |-> rows[k].EquipmentID]]

\* <tbody>: one <tr> per projected record, or the single placeholder row
TableBody(rows, f) ==
  IF Len(rows) > 0
    THEN [k \in 1 .. Len(rows) |-> [kind |-> "row", key |-> rows[k].EquipmentID]]
    ELSE <<[kind |-> "placeholder", key |-> f]>>

\* a Category screen whose list has loaded with any list of EquipmentLists
FilterInit ==
  /\ view = [name |-> "category", props |-> [category |-> "Excavator", equipmentId |-> Undefined]]
  /\ navs = 1
  /\ mounted = [comp |-> "CategoryView", inst |-> 2]
  /\ issued = MountRequests("Dashboard", 1, NoProps)
                \o MountRequests("CategoryView", 2, view.props)
  /\ inflight = {}
  /\ summary = <<>>
  /\ dashboardError = ""
  /\ equipment \in EquipmentLists
  /\ isLoading = FALSE
  /\ categoryError = ""
  /\ activeFilter = "All"
  /\ vehicle = Null
  /\ vehicleError = ""
  /\ prediction = Null
  /\ date = ""
  /\ pricePrediction = Null
  /\ duration = 90
  /\ analysisResult = Null
  /\ isAnalyzing = FALSE
  /\ report = Null
  /\ sustainabilityError = ""
  /\ forecastData = Null
  /\ forecastIsLoading = FALSE
  /\ forecastError = ""

FilterNext == \E f \in Filters : SetActiveFilter(f)

SpecFilter == FilterInit /\ [][FilterNext]_vars

\* C29: for every filter and every equipment list the projection is a
\* subsequence of the list in the list's order holding exactly the records
\* whose Status is the filter, and for All it is the list itself.
C29_ProjectionIsOrderedSubsequence ==
  LET out == FilteredEquipment(equipment, activeFilter)
      keep == {i \in 1 .. Len(equipment) :
                 activeFilter = "All" \/ equipment[i].Status = activeFilter}
  IN /\ \E pos \in [1 .. Len(out) -> 1 .. Len(equipment)] :
          /\ \A k \in 1 .. Len(out) : out[k] = equipment[pos[k]]
          /\ \A k, l \in 1 .. Len(out) : k < l => pos[k] < pos[l]
          /\ {pos[k] : k \in 1 .. Len(out)} = keep
     /\ activeFilter = "All" => out = equipment

\* C29 witness: a filter keeps the first and the last of three records.
C29_Witness ==
  /\ Len(equipment) = 3
  /\ activeFilter = "Available"
  /\ equipment[2].Status # "Available"
  /\ FilteredEquipment(equipment, activeFilter) = <<equipment[1], equipment[3]>>
  /\ equipment[1] # equipment[3]

\* a status tag without its dashes and in lower case
Normalized(tag) ==
  CASE tag \in {"In-Use", "in-use", "InUse"} -> "inuse"
    [] tag = "Available" -> "available"
    [] tag = "Maintenance" -> "maintenance"
    [] OTHER -> tag

\* C30: under the In-Use filter the projection holds exactly the records
\* whose status tag is In-Use once dashes are removed and case is ignored.
C30_InUseMatchesNormalized ==
  activeFilter = "In-Use" =>
    LET out == FilteredEquipment(equipment, activeFilter)
    IN /\ \A k \in 1 .. Len(out) : Normalized(out[k].Status) = "inuse"
       /\ Len(out) = Cardinality({i \in 1 .. Len(equipment) :
                                     Normalized(equipment[i].Status) = "inuse"})
\* C31: selecting a filter changes the filter alone: the fetched list, the
\* loading flag and the error stay as they are and no request is sent, so the
\* All projection after the step is the list fetched before it.
C31_FilterIsLocal ==
  [][\A f \in Filters :
       SetActiveFilter(f) =>
         /\ UNCHANGED <<equipment, isLoading, categoryError, netVars>>
         /\ activeFilter' = f
         /\ FilteredEquipment(equipment', "All") = equipment]_vars

\* C31 witness: a filter that hides records is selected and the fetched
\* three records are still held.
C31_Witness ==
  /\ CategoryRendered
  /\ activeFilter = "Maintenance"
  /\ Len(equipment) = 3
  /\ Len(FilteredEquipment(equipment, activeFilter)) = 1
  /\ FilteredEquipment(equipment, "All") = equipment

\* C32: on the rendered Category table an empty projection gives the single
\* placeholder row and no equipment row; a non-empty projection gives one
\* row per projected record, in order, and no placeholder.
C32_PlaceholderIffEmpty ==
  CategoryRendered =>
    LET out == FilteredEquipment(equipment, activeFilter)
        body == TableBody(out, activeFilter)
    IN /\ Len(out) = 0 => (Len(body) = 1 /\ body[1].kind = "placeholder")
       /\ Len(out) > 0 =>
            /\ Len(body) = Len(out)
            /\ \A k \in 1 .. Len(body) :
                 body[k].kind = "row" /\ body[k].key = out[k].EquipmentID

\* C32 witness: the only record is In-Use, the filter is Available, and the
\* table body is the placeholder.
C32_Witness ==
  /\ CategoryRendered
  /\ Len(equipment) = 1 /\ equipment[1].Status = "In-Use"
  /\ activeFilter = "Available"
  /\ TableBody(FilteredEquipment(equipment, activeFilter), activeFilter)
       = <<[kind |-> "placeholder", key |-> "Available"]>>
\* ---------------------------------------------------------- Dashboard cards
\* statuses[key] || 0
CountOr0(statuses, key) ==
  IF key \in DOMAIN statuses /\ statuses[key] # 0 THEN statuses[key] ELSE 0

\* a grid that renders the first entry only
DashboardCardsFirstOnly ==
  IF DashboardShows = "cards"
    THEN <<[category |-> summary[1].category,
            Total |-> CountOr0(summary[1].statuses, "Total"),
            Available |-> CountOr0(summary[1].statuses, "Available"),
            InUse |-> CountOr0(summary[1].statuses, "InUse"),
            Maintenance |-> CountOr0(summary[1].statuses, "Maintenance")]>>
    ELSE <<>>

\* the summary cards the Dashboard renders: summary.map(...) behind the guards
DashboardCards ==
  IF DashboardShows = "cards"
    THEN [k \in 1 .. Len(summary) |->
            [category |-> summary[k].category,
             Total |-> CountOr0(summary[k].statuses, "Total"),
             Available |-> CountOr0(summary[k].statuses, "Available"),
             InUse |-> CountOr0(summary[k].statuses, "InUse"),
             Maintenance |-> CountOr0(summary[k].statuses, "Maintenance")]]
    ELSE <<>>

\* C33: after a well-formed summary response the Dashboard renders exactly
\* one card per entry of the data sequence, in the order of the sequence,
\* each with the entry's four counts, a count that is missing shown as 0.
C33_OneCardPerEntry ==
  [][\A id \in inflight : \A res \in SummaryResponses :
       (/\ Delivered(issued[id])
        /\ res.ok /\ IsArray(res.data.data)
        /\ SummaryResponse(id, res))
       => LET entries == res.data.data.items
              Shown(k, key) == IF key \in DOMAIN entries[k].statuses
                                 THEN entries[k].statuses[key] ELSE 0
          IN /\ Len(DashboardCards') = Len(entries)
             /\ \A k \in 1 .. Len(entries) :
                  /\ DashboardCards'[k].category = entries[k].category
                  /\ DashboardCards'[k].Total = Shown(k, "Total")
                  /\ DashboardCards'[k].Available = Shown(k, "Available")
                  /\ DashboardCards'[k].InUse = Shown(k, "InUse")
                  /\ DashboardCards'[k].Maintenance = Shown(k, "Maintenance")]_vars

\* C33 witness: two cards are rendered, the second from an entry without
\* In-Use and Maintenance counts, the first with a Maintenance count of zero.
C33_Witness ==
  /\ mounted.comp = "Dashboard"
  /\ Len(DashboardCards) = 2
  /\ "Maintenance" \notin DOMAIN summary[2].statuses
  /\ DashboardCards[2].Maintenance = 0 /\ DashboardCards[2].InUse = 0
  /\ DashboardCards[1] = [category |-> "Excavator", Total |-> 5, Available |-> 3,
                          InUse |-> 2, Maintenance |-> 0]
\* ------------------------------------------------ Category -> Vehicle -> back
\* <tr onClick={() => navigateTo("vehicle", { equipmentId, category })}> of a
\* row the table shows
RowClick(k) ==
  /\ CategoryRendered
  /\ k \in 1 .. Len(FilteredEquipment(equipment, activeFilter))
  /\ NavigateTo("vehicle",
                [category |-> view.props.category,
                 equipmentId |-> FilteredEquipment(equipment, activeFilter)[k].EquipmentID])

\* the back button of the Vehicle screen:
\* navigateTo("category", { category: vehicle.Type })
HandleBack ==
  /\ VehicleRendered
  /\ NavigateTo("category", [category |-> vehicle.Type, equipmentId |-> Undefined])

\* the Category screen of any category with its list loaded; navs counts the
\* navigateTo calls made from here on
BackInit ==
  /\ view \in [name : {"category"}, props : [category : Categories, equipmentId : {Undefined}]]
  /\ navs = 0
  /\ mounted = [comp |-> "CategoryView", inst |-> 2]
  /\ issued = MountRequests("Dashboard", 1, NoProps)
                \o MountRequests("CategoryView", 2, view.props)
  /\ inflight = {}
  /\ summary = <<>>
  /\ dashboardError = ""
  /\ equipment \in ListsFor(view.props.category) \ {<<>>}
  /\ isLoading = FALSE
  /\ categoryError = ""
  /\ activeFilter = "All"
  /\ vehicle = Null
  /\ vehicleError = ""
  /\ prediction = Null
  /\ date = ""
  /\ pricePrediction = Null
  /\ duration = 90
  /\ analysisResult = Null
  /\ isAnalyzing = FALSE
  /\ report = Null
  /\ sustainabilityError = ""
  /\ forecastData = Null
  /\ forecastIsLoading = FALSE
  /\ forecastError = ""

BackNext ==
  \/ \E f \in Filters : SetActiveFilter(f)
  \/ \E k \in 1 .. MaxRows : RowClick(k)
  \/ \E id \in inflight : \E res \in DetailResponses(id) : DetailResponse(id, res)
  \/ \E d \in DateInputs : SetDate(d)
  \/ HandleReturnVehicle
  \/ \E id \in inflight, res \in {Ok(Null)} \cup Failures : ReturnResponse(id, res)
  \/ HandleBack
  \/ \E id \in inflight : \E res \in ListResponses(issued[id]) : ListResponse(id, res)

SpecBack == BackInit /\ [][BackNext]_vars

\* C34: the back action of a Vehicle screen entered from the Category screen
\* of category C makes the Category screen of category C the active screen,
\* whatever vehicle record the service returned.
C34_BackReturnsToCategory ==
  [][HandleBack =>
       /\ view'.name = "category"
       /\ view'.props.category = view.props.category]_vars
\* ------------------------------------------------------- DemandForecastView
\* the number of forecast runs of one behaviour
MaxRuns == 3

\* the forecast points of a successful POST /predict-demand
ForecastPoint(ds, yhat) == [ds |-> ds, actual |-> yhat, yhat |-> yhat]
ForecastResponses ==
  {Ok(JsArray(<<ForecastPoint("2025-01", 4), ForecastPoint("2025-02", 6)>>)),
   Ok(JsArray(<<>>)), Ok(Null), Ok(JsObject)} \cup Failures

\* the render of DemandForecastView returns: forecastData.map throws for a
\* body that is neither null nor an array
ForecastRendered ==
  /\ mounted.comp = "DemandForecastView"
  /\ (forecastData = Null \/ IsArray(forecastData))

\* the presentable states the DemandForecastView shows at once: the
\* "Running Forecast..." label, the error box, the chart
ForecastSections ==
  IF ~ForecastRendered THEN {}
  ELSE (IF forecastIsLoading THEN {"loading"} ELSE {})
         \cup (IF forecastError # "" THEN {"error"} ELSE {})
         \cup (IF forecastData # Null THEN {"populated"} ELSE {})

HandleRunForecast ==
  /\ ForecastRendered
  /\ ~forecastIsLoading
  /\ Cardinality({i \in DOMAIN issued : issued[i].slot = "forecast"}) < MaxRuns
  /\ forecastIsLoading' = TRUE
  /\ forecastError' = ""
  /\ forecastData' = Null
  /\ Send(<<Request("forecast", mounted.inst, Undefined, Null)>>)
  /\ UNCHANGED <<routerVars, dashboardVars, categoryVars, vehicleVars, sustainabilityVars>>

ForecastResponse(id, res) ==
  /\ id \in inflight
  /\ issued[id].slot = "forecast"
  /\ Settle(id, <<>>)
  /\ IF ~Delivered(issued[id])
       THEN UNCHANGED forecastVars
       ELSE /\ IF res.ok
                 THEN forecastData' = res.data /\ UNCHANGED forecastError
                 ELSE /\ forecastError' = "Could not run the demand forecast. Please check the console."
                      /\ UNCHANGED forecastData
            /\ forecastIsLoading' = FALSE
  /\ UNCHANGED <<routerVars, dashboardVars, categoryVars, vehicleVars, sustainabilityVars>>

\* the back button: navigateTo("dashboard")
HandleForecastBack ==
  /\ ForecastRendered
  /\ NavigateTo("dashboard", NoProps)

\* a click on the card of the k-th summary entry:
\* navigateTo("category", { category })
CardClick(k) ==
  /\ mounted.comp = "Dashboard" /\ DashboardShows = "cards"
  /\ k \in 1 .. Len(summary)
  /\ NavigateTo("category", [category |-> summary[k].category, equipmentId |-> Undefined])

\* a host that renders <DemandForecastView navigateTo={navigateTo} /> as the
\* active screen
ForecastHostInit ==
  /\ view = [name |-> DemandForecastName, props |-> NoProps]
  /\ navs = 0
  /\ mounted = [comp |-> "DemandForecastView", inst |-> 1]
  /\ issued = <<>>
  /\ inflight = {}
  /\ summary = <<>>
  /\ dashboardError = ""
  /\ equipment = <<>>
  /\ isLoading = TRUE
  /\ categoryError = ""
  /\ activeFilter = "All"
  /\ vehicle = Null
  /\ vehicleError = ""
  /\ prediction = Null
  /\ date = ""
  /\ pricePrediction = Null
  /\ duration = 90
  /\ analysisResult = Null
  /\ isAnalyzing = FALSE
  /\ report = Null
  /\ sustainabilityError = ""
  /\ forecastData = Null
  /\ forecastIsLoading = FALSE
  /\ forecastError = ""

ForecastNext ==
  \/ HandleRunForecast
  \/ \E id \in inflight, res \in ForecastResponses : ForecastResponse(id, res)
  \/ HandleForecastBack
  \/ \E id \in inflight, res \in SummaryResponses : SummaryResponse(id, res)
  \/ \E k \in 1 .. Len(summary) : CardClick(k)
  \/ \E id \in inflight : \E res \in ListResponses(issued[id]) : ListResponse(id, res)

SpecForecast == ForecastHostInit /\ [][ForecastNext]_vars

\* the presentable states the mounted screen shows at once
Presented ==
  IF mounted.comp = "DemandForecastView" THEN ForecastSections
  ELSE {IF Shows \in {"loading", "error"} THEN Shows ELSE "populated"}

\* C35: in every reachable state the mounted screen shows exactly one of
\* loading, error and populated: never none of them, never two at once.
C35_ExactlyOnePresentableState ==
  Cardinality(Presented) = 1
\* C36: the screen rendered for each of the six screen kinds is the screen of
\* that kind, and the Dashboard is rendered for another name only when the
\* name is none of the six kinds.
C36_EveryKindHasItsScreen ==
  LET ScreenOf == [name \in KnownNames \cup {DemandForecastName} |->
                     CASE name = "dashboard" -> "Dashboard"
                       [] name = "category" -> "CategoryView"
                       [] name = "vehicle" -> "VehicleView"
                       [] name = "sustainability" -> "SustainabilityView"
                       [] name = "bim" -> "BimView"
                       [] name = DemandForecastName -> "DemandForecastView"]
  IN /\ view.name \in DOMAIN ScreenOf => mounted.comp = ScreenOf[view.name]
     /\ (mounted.comp = "Dashboard" /\ view.name # "dashboard")
          => view.name \notin DOMAIN ScreenOf
\* -------------------------------------------------------- availability card
\* renderPredictionResult(prediction): nothing, the error text, the AVAILABLE
\* sentence with the date state, or the IN-USE sentence with the return date
PredictionResult ==
  IF prediction = Null THEN [kind |-> "none"]
  ELSE IF prediction.error # "" THEN [kind |-> "error", text |-> prediction.error]
  ELSE IF prediction.data # Null /\ prediction.data.available
    THEN [kind |-> "available", text |-> date]
  ELSE [kind |-> "in-use",
        text |-> IF prediction.data = Null THEN Undefined
                 ELSE prediction.data.predictedReturnDate]

\* C37: whenever the availability card shows the AVAILABLE sentence, the date
\* it names is the futureDate sent in the request whose response is shown.
C37_DisplayedDateIsRequestedDate ==
  (VehicleRendered /\ PredictionResult.kind = "available")
    => PredictionResult.text = issued[prediction.rid].body.futureDate
\* ------------------------------------------------------------ return button
\* C38: a return-vehicle request is sent only in a step taken while the
\* Vehicle screen displays a record whose status is In-Use; while the
\* displayed record has another status no return-vehicle request is sent.
C38_ReturnOnlyWhileInUse ==
  [][\A i \in (Len(issued) + 1) .. Len(issued') :
       issued'[i].slot = "return"
         => /\ VehicleRendered
            /\ vehicle.Status = "In-Use"
            /\ issued'[i].inst = mounted.inst]_vars

\* C38 witness: the screen sent a return request while its record was In-Use
\* and now displays the record of a later detail response, status Available.
C38_Witness ==
  /\ VehicleRendered
  /\ vehicle.Status = "Available"
  /\ \E i \in SentBy(mounted.inst, "return") : i \notin inflight /\ vehicle.rid > i

\* ---------------------------------------------------------- analysis button
\* the analysis requests of the mounted Vehicle screen that are in flight
AnalysisInFlight == SentBy(mounted.inst, "behaviorAnalysis") \cap inflight

\* Spec with a service that answers every analysis request it receives
SpecAnalysisLive ==
  Spec /\ WF_vars(\E id \in inflight, res \in AnalysisResponses : AnalysisResponse(id, res))

====
